---- MODULE Spec2Model ----
(***************************************************************************)
(* A model of flashbang's flashcard generation pipeline:                    *)
(*   - OllamaClient.generate_text (src/src/ollama/client.py): the          *)
(*     streaming request with its retry loop and stop condition;           *)
(*   - OllamaCardGenerator.generate_flashcards and                         *)
(*     ClaudeCardGenerator.generate_flashcards: the two controllers that   *)
(*     accumulate the stream and write the deck file;                      *)
(*   - OllamaCardGenerator._truncate_to_target: the output normalizer;     *)
(*   - OllamaCardGenerator._check_and_truncate_for_context: the content    *)
(*     truncator;                                                          *)
(*   - validate_output of both generators and AnkiFormatter                *)
(*     (src/src/anki_formatter.py): validate_tsv, normalize_tags and       *)
(*     format_cards;                                                       *)
(*   - the write of the deck file, step by step.                           *)
(* Text is a sequence of one-character strings, so that split, join,       *)
(* count, strip, startswith, rfind and slicing are computed as Python      *)
(* computes them.                                                          *)
(***************************************************************************)
EXTENDS Integers, Sequences, FiniteSets, TLC

VARIABLES
    \* ---- the normalizer applied to a raw document (SpecNorm)
    npc,            \* "raw" -> "once" -> "twice"
    doc,            \* the raw document handed to _truncate_to_target
    norm_target,    \* its target_cards argument
    out1,           \* _truncate_to_target(doc, norm_target)
    out2,           \* _truncate_to_target(out1, norm_target)
    \* ---- one run of generate_flashcards (Spec, FairSpec)
    provider,       \* "ollama" or "claude": the generator create_card_generator built
    target_cards,   \* the caller's target_cards
    page_count,     \* get_pdf_page_count(unit_name); 0 when it is unknown
    max_retries,    \* OllamaClient.max_retries
    timeout,        \* OllamaClient.timeout: <<>> is None (disabled), <<t>> is t seconds
    pc,             \* "idle", "streaming", "backoff" (in time.sleep), "done"
    attempt,        \* the loop variable of generate_text's retry loop
    full_response,  \* generate_text's local: the text of the current attempt
    accumulated_content, \* the generator's list of chunks (counting_callback)
    callback_error, \* what the caller's progress_callback raised, "none" if nothing
    card_count,     \* card_count[0]
    flashcard_content,   \* the generator's local: the text to be saved
    deck_file,      \* the content of <unit>_anki.txt, NoFile while it does not exist
    returned,       \* generate_flashcards returned str(output_path)
    raised,         \* the exception generate_flashcards raised, "none" if none
    interrupted,    \* the Ollama generator's local flag
    sigint,         \* a KeyboardInterrupt was delivered during the run
    stopped_early,  \* generate_text's local flag
    waits,          \* the arguments of the time.sleep calls, in order
    provider_error, \* the last exception the provider call ended with, "none" if none
    lines_received, \* the number of response lines the provider has sent
    \* ---- _check_and_truncate_for_context on one unit (SpecTrunc)
    tpc,            \* "call" -> "done"
    markdown_content,    \* the unit's markdown
    context_length, \* self.client.get_context_length()
    n_images,       \* len(images)
    truncated,      \* the returned content
    trunc_raised,   \* the exception the call raised, "none" if none
    content_tokens, \* the call's local: self.client.estimate_tokens(markdown_content)
    \* ---- the validators and AnkiFormatter on one document (SpecFmt)
    fpc,            \* "raw", then the operation that was applied
    fdoc,           \* the document: the content of the deck file
    unit_tag,       \* normalize_tags' unit_tag argument
    vo,             \* validate_output's results dictionary
    tsv,            \* validate_tsv's (is_valid, errors)
    nt1,            \* normalize_tags(fdoc, unit_tag)
    nt2,            \* normalize_tags(nt1, unit_tag)
    formatted,      \* format_cards(fdoc, unit_name)
    parsed,         \* parse_anki_tsv(output_path) on the same file
    \* ---- the write of the deck file (SpecWrite)
    wpc,            \* "ready", "open" (inside the with block), "closed", "killed"
    to_write,       \* the document handed to f.write
    previous_file,  \* the content at output_path before the run, NoFile if none
    disk_file,      \* the content at output_path now, NoFile if none
    \* ---- the truncator and _create_generation_prompt on one unit, by the
    \* ---- lengths of the texts (SpecPrompt)
    ppc,            \* "call" -> "truncated" or "raised" -> "prompted"
    content_len,    \* len(markdown_content) of the unit
    model_context,  \* self.client.get_context_length()
    marker_at,      \* truncated.rfind('\n## ') if the content is cut, -1 if no marker
    kept_len,       \* the number of characters of the unit in the returned content
    notice_added,   \* the truncation notice was appended
    embedded_len,   \* len(markdown_content[:15000]) in the prompt
    notice_embedded \* the number of characters of the notice in the prompt

VARIABLES
    meta_file,      \* outputs/metadata/image_descriptions.json on disk
    bak_file,       \* image_descriptions.json.bak on disk
    mpc,            \* each extraction run: where its MetadataStorage is
    collection,     \* each run's in-memory MetadataCollection.images
    fd,             \* the file each run's open file object writes to
    observed,       \* what a reader of the store found
    had_store,      \* a complete store has been at the store's path
    persisted,      \* the filenames complete stores at the path have held
    described_once  \* the filenames that were described in such a store

VARIABLES
    bpc,            \* where the batch command is
    command,        \* "generate" (no --unit) or "package" (--all)
    unit_outcomes,  \* what happens to each unit of config.yaml, in order
    results,        \* the outcomes of the units attempted so far
    reported,       \* the units whose failure was printed, with their cause
    command_result, \* what generate_command / package_command returned
    exit_status     \* the exit status of the process, -1 while it runs

normVars == <<npc, doc, norm_target, out1, out2>>
genVars == <<provider, target_cards, page_count, max_retries, timeout, pc, attempt,
            callback_error,
             full_response, accumulated_content, card_count, flashcard_content,
             deck_file, returned, raised, interrupted, sigint, stopped_early,
             waits, provider_error, lines_received>>
truncVars == <<tpc, markdown_content, context_length, n_images, truncated,
               trunc_raised, content_tokens>>
fmtVars == <<fpc, fdoc, unit_tag, vo, tsv, nt1, nt2, formatted, parsed>>
writeVars == <<wpc, to_write, previous_file, disk_file>>
promptVars == <<ppc, content_len, model_context, marker_at, kept_len,
                notice_added, embedded_len, notice_embedded>>
metaVars == <<meta_file, bak_file, mpc, collection, fd, observed, had_store,
             persisted, described_once>>
batchVars == <<bpc, command, unit_outcomes, results, reported, command_result,
              exit_status>>
vars == <<normVars, genVars, truncVars, fmtVars, writeVars, promptVars, metaVars, batchVars>>

\* ------------------------------------------------------------------------
\* Bounds of the model
\* ------------------------------------------------------------------------
\* the number of lines of a raw document handed to the normalizer
MaxDocLines == 4
\* the largest target_cards handed to the normalizer
MaxNormTarget == 2
\* the largest target_cards of a generation run
MaxTarget == 2
\* the largest page count of a unit's PDF
MaxPages == 1
\* the largest configured max_retries
MaxRetries == 3
\* the number of response lines the provider sends during one run
MaxLines == 3
\* the number of segments a unit's markdown is made of
MaxSegments == 6
\* the largest number of tokens left for the content
MaxAvailable == 5
\* the largest number of images of a unit
MaxImages == 1
\* the number of rows below the header of a document handed to the validators
\* and the formatter
MaxRows == 2
\* the lengths of the units handed to the prompt: 0, LenStep, 2 * LenStep, ...
\* up to MaxLenSteps * LenStep characters
LenStep == 4000
MaxLenSteps == 8

\* ------------------------------------------------------------------------
\* Python string operations on sequences of characters
\* ------------------------------------------------------------------------
TAB == "\t"
NL == "\n"

\* str.strip() removes these from both ends (the ASCII ones the model uses)
Whitespace == {" ", "\t", "\n", "\r"}

\* the literal 'Front\tBack\tTags'
ColumnHeader == <<"F", "r", "o", "n", "t", "\t", "B", "a", "c", "k", "\t", "T", "a", "g", "s">>
\* the literals '#separator:tab', '#html:true', '#tags column:3'
SeparatorLine == <<"#", "s", "e", "p", "a", "r", "a", "t", "o", "r", ":", "t", "a", "b">>
HtmlLine == <<"#", "h", "t", "m", "l", ":", "t", "r", "u", "e">>
TagsLine == <<"#", "t", "a", "g", "s", " ", "c", "o", "l", "u", "m", "n", ":", "3">>

\* s.split('\n'): always at least one element; the pieces hold no newline
RECURSIVE SplitLines(_)
SplitLines(s) ==
    IF \A i \in 1..Len(s) : s[i] # NL
    THEN <<s>>
    ELSE LET i == CHOOSE k \in 1..Len(s) :
                      s[k] = NL /\ \A j \in 1..(k - 1) : s[j] # NL
         IN  <<SubSeq(s, 1, i - 1)>> \o SplitLines(SubSeq(s, i + 1, Len(s)))

\* '\n'.join(lines)
RECURSIVE JoinLines(_)
JoinLines(lines) ==
    IF lines = <<>> THEN <<>>
    ELSE IF Len(lines) = 1 THEN lines[1]
    ELSE lines[1] \o <<NL>> \o JoinLines(Tail(lines))

\* line.count('\t')
CountTabs(line) == Cardinality({i \in 1..Len(line) : line[i] = TAB})

\* bool(line.strip()): some character is not whitespace
StripNonEmpty(line) == \E i \in 1..Len(line) : line[i] \notin Whitespace

\* line.startswith(prefix)
StartsWith(line, prefix) ==
    /\ Len(line) >= Len(prefix)
    /\ SubSeq(line, 1, Len(prefix)) = prefix

\* ------------------------------------------------------------------------
\* OllamaCardGenerator._truncate_to_target
\* ------------------------------------------------------------------------
\* the line test of the else branch: line.strip() and line.count('\t') >= 2
IsCardLine(line) == StripNonEmpty(line) /\ CountTabs(line) >= 2

\* the for loop over lines, one iteration per call; the result is the pair
\* (header_lines, card_lines)
RECURSIVE ScanLines(_, _, _, _)
ScanLines(lines, in_headers, header_lines, card_lines) ==
    IF lines = <<>> THEN <<header_lines, card_lines>>
    ELSE LET line == Head(lines) IN
         IF in_headers
         THEN ScanLines(Tail(lines),
                        ~StartsWith(line, ColumnHeader),
                        Append(header_lines, line),
                        card_lines)
         ELSE ScanLines(Tail(lines),
                        FALSE,
                        header_lines,
                        IF IsCardLine(line) THEN Append(card_lines, line)
                                            ELSE card_lines)

\* a plausible slip: keep the last target_cards cards instead of the first
TruncateCardsKeepLast(card_lines, target) ==
    IF Len(card_lines) > target
    THEN SubSeq(card_lines, Len(card_lines) - target + 1, Len(card_lines))
    ELSE card_lines

\* if len(card_lines) > target_cards: card_lines = card_lines[:target_cards]
\* (target_cards >= 0 throughout the model)
TruncateCards(card_lines, target) ==
    IF Len(card_lines) > target
    THEN SubSeq(card_lines, 1, target)
    ELSE card_lines

\* '\n'.join(header_lines + card_lines) + '\n'
Reconstruct(header_lines, card_lines) ==
    JoinLines(header_lines \o card_lines) \o <<NL>>

truncate_to_target(content, target) ==
    LET scanned == ScanLines(SplitLines(content), TRUE, <<>>, <<>>)
    IN  Reconstruct(scanned[1], TruncateCards(scanned[2], target))

\* ------------------------------------------------------------------------
\* One run of generate_flashcards
\* ------------------------------------------------------------------------
cfgVars == <<provider, target_cards, page_count, max_retries, timeout>>

\* the deck file does not exist
NoFile == <<"ENOENT">>

\* RuntimeError("Ollama failed to generate flashcards")
OllamaFailed == "RuntimeError: Ollama failed to generate flashcards"

\* ''.join(chunks)
RECURSIVE Concat(_)
Concat(chunks) ==
    IF chunks = <<>> THEN <<>> ELSE Head(chunks) \o Concat(Tail(chunks))

\* 2 ** n
RECURSIVE Pow2(_)
Pow2(n) == IF n <= 0 THEN 1 ELSE 2 * Pow2(n - 1)

\* OllamaClient.__init__: None if timeout in (0, -1) else timeout
ClientTimeout(t) == IF t \in {0, -1} THEN <<>> ELSE <<t>>

\* effective_target: int(page_count * 1.5) when the page count is known
effective_target ==
    IF page_count > 0 THEN (3 * page_count) \div 2 ELSE target_cards

\* stop_threshold = effective_target + 2
stop_threshold == effective_target + 2

\* sum(1 for line in full_text.split('\n') if line.count('\t') >= 2)
CountCardLines(full_text) ==
    LET lines == SplitLines(full_text)
    IN  Cardinality({i \in 1..Len(lines) : CountTabs(lines[i]) >= 2})

\* a plausible slip: > instead of >=
should_stop_strict(full_text) == CountCardLines(full_text) > stop_threshold

\* should_stop(full_text): current_count >= stop_threshold
should_stop(full_text) == CountCardLines(full_text) >= stop_threshold

\* a plausible slip: the handler never re-raises
NeverReraise(acc) == FALSE

\* except KeyboardInterrupt: "if accumulated_content: ... else: raise"
InterruptReraised(acc) == acc = <<>>

\* a plausible slip: the last attempt sleeps too
AlwaysRetry(k, n) == TRUE

\* except httpx.TimeoutException: if attempt < self.max_retries - 1
RetryAfterTimeout(k, n) == k < n - 1

\* wait_time = 2 ** attempt
wait_time(k) == Pow2(k)

\* two different well-formed card lines
CardA == <<"a", "\t", "b", "\t", "c">>
CardB == <<"d", "\t", "e", "\t", "f">>

\* The text the provider streams, by response line: the four header lines,
\* a whole card, a card cut after its second tab, a row of four fields.
HeaderChunk ==
    SeparatorLine \o <<NL>> \o HtmlLine \o <<NL>> \o TagsLine \o <<NL>>
        \o ColumnHeader \o <<NL>>
CardChunk == CardA \o <<NL>>
HalfCardChunk == <<"a", "\t", "b", "\t">>
WideRowChunk == <<"a", "\t", "b", "\t", "c", "\t", "d", "\n">>
Chunks == {HeaderChunk, CardChunk, HalfCardChunk, WideRowChunk}

\* lines 432-447 of generate_flashcards, `content` being flashcard_content
\* (None and '' are both the empty text here: "if not flashcard_content")
SaveOrFail(content) ==
    /\ pc' = "done"
    /\ IF content = <<>>
       THEN /\ raised' = OllamaFailed
            /\ flashcard_content' = content
            /\ UNCHANGED <<deck_file, returned>>
       ELSE /\ flashcard_content' = truncate_to_target(content, effective_target)
            /\ deck_file' = flashcard_content'
            /\ returned' = TRUE
            /\ UNCHANGED raised

\* generate_flashcards up to the first request of generate_text:
\* check_availability, then the first iteration of the retry loop
StartOllama ==
    /\ pc = "idle"
    /\ provider = "ollama"
    /\ \E available \in BOOLEAN :
         IF available /\ max_retries > 0
         THEN /\ pc' = "streaming"
              /\ attempt' = 0
              /\ full_response' = <<>>
              /\ stopped_early' = FALSE
              /\ UNCHANGED <<flashcard_content, deck_file, returned, raised,
                             provider_error>>
         ELSE /\ SaveOrFail(<<>>)
              /\ provider_error' = IF available THEN "none" ELSE "unavailable"
              /\ UNCHANGED <<attempt, full_response, stopped_early>>
    /\ UNCHANGED <<normVars, batchVars, metaVars, promptVars, truncVars, fmtVars, writeVars, cfgVars, callback_error, accumulated_content, card_count, interrupted,
                   sigint, waits, lines_received>>

\* the caller's progress_callback, called with each chunk: it returns, or it
\* raises an Exception
CallbackOutcomes == {"none", "Exception"}

\* one response line with a non-empty "response": full_response += chunk,
\* counting_callback(chunk), which appends the chunk, counts the card lines
\* and calls the caller's progress_callback, then stop_condition(full_response).
\* An Exception out of the callback ends generate_text in "except Exception:
\* return None".
RecvChunk ==
    /\ pc = "streaming"
    /\ provider = "ollama"
    /\ lines_received < MaxLines
    /\ \E chunk \in Chunks, outcome \in CallbackOutcomes :
         /\ full_response' = full_response \o chunk
         /\ accumulated_content' = Append(accumulated_content, chunk)
         /\ card_count' = CountCardLines(Concat(accumulated_content'))
         /\ callback_error' = outcome
         /\ IF outcome # "none"
            THEN /\ SaveOrFail(<<>>)
                 /\ UNCHANGED stopped_early
            ELSE IF should_stop(full_response')
            THEN /\ stopped_early' = TRUE
                 /\ SaveOrFail(full_response')
            ELSE /\ UNCHANGED <<stopped_early, pc, flashcard_content,
                                deck_file, returned, raised>>
    /\ lines_received' = lines_received + 1
    /\ UNCHANGED <<normVars, batchVars, metaVars, promptVars, truncVars, fmtVars, writeVars, cfgVars, attempt, interrupted, sigint, waits, provider_error>>

\* a response line that is skipped: blank, not JSON, or with an empty "response"
RecvIgnoredLine ==
    /\ pc = "streaming"
    /\ provider = "ollama"
    /\ lines_received < MaxLines
    /\ lines_received' = lines_received + 1
    /\ UNCHANGED <<normVars, batchVars, metaVars, promptVars, truncVars, fmtVars, writeVars, cfgVars, callback_error, pc, attempt, full_response, accumulated_content,
                   card_count, flashcard_content, deck_file, returned, raised,
                   interrupted, sigint, stopped_early, waits, provider_error>>

\* iter_lines is exhausted: return full_response
StreamEnd ==
    /\ pc = "streaming"
    /\ provider = "ollama"
    /\ SaveOrFail(full_response)
    /\ UNCHANGED <<normVars, batchVars, metaVars, promptVars, truncVars, fmtVars, writeVars, cfgVars, callback_error, attempt, full_response, accumulated_content,
                   card_count, interrupted, sigint, stopped_early, waits,
                   provider_error, lines_received>>

\* except Exception: return None (raise_for_status on a non-2xx status before
\* the first line, or a transport error at any point)
ProviderFails ==
    /\ pc = "streaming"
    /\ provider = "ollama"
    /\ \E e \in {"HTTPStatusError", "ReadError"} :
         /\ (e = "HTTPStatusError") => (full_response = <<>>)
         /\ provider_error' = e
    /\ SaveOrFail(<<>>)
    /\ UNCHANGED <<normVars, batchVars, metaVars, promptVars, truncVars, fmtVars, writeVars, cfgVars, callback_error, attempt, full_response, accumulated_content,
                   card_count, interrupted, sigint, stopped_early, waits,
                   lines_received>>

\* except httpx.TimeoutException: sleep and retry, or return None
Timeout ==
    /\ pc = "streaming"
    /\ provider = "ollama"
    /\ timeout # <<>>
    /\ provider_error' = "TimeoutException"
    /\ IF RetryAfterTimeout(attempt, max_retries)
       THEN /\ waits' = Append(waits, wait_time(attempt))
            /\ pc' = "backoff"
            /\ UNCHANGED <<flashcard_content, deck_file, returned, raised>>
       ELSE /\ SaveOrFail(<<>>)
            /\ UNCHANGED waits
    /\ UNCHANGED <<normVars, batchVars, metaVars, promptVars, truncVars, fmtVars, writeVars, cfgVars, callback_error, attempt, full_response, accumulated_content,
                   card_count, interrupted, sigint, stopped_early,
                   lines_received>>

\* time.sleep returns: the next iteration of the loop, if there is one
\* ("return None" after the loop otherwise)
WakeUp ==
    /\ pc = "backoff"
    /\ IF attempt + 1 < max_retries
       THEN /\ attempt' = attempt + 1
            /\ full_response' = <<>>
            /\ stopped_early' = FALSE
            /\ pc' = "streaming"
            /\ UNCHANGED <<flashcard_content, deck_file, returned, raised>>
       ELSE /\ SaveOrFail(<<>>)
            /\ UNCHANGED <<attempt, full_response, stopped_early>>
    /\ UNCHANGED <<normVars, batchVars, metaVars, promptVars, truncVars, fmtVars, writeVars, cfgVars, callback_error, accumulated_content, card_count, interrupted,
                   sigint, waits, provider_error, lines_received>>

\* KeyboardInterrupt inside generate_text: it is no Exception, so the client
\* lets it through to the generator's handler
InterruptOllama ==
    /\ pc \in {"streaming", "backoff"}
    /\ provider = "ollama"
    /\ sigint' = TRUE
    /\ interrupted' = TRUE
    /\ IF InterruptReraised(accumulated_content)
       THEN /\ raised' = "KeyboardInterrupt"
            /\ pc' = "done"
            /\ UNCHANGED <<flashcard_content, deck_file, returned>>
       ELSE SaveOrFail(Concat(accumulated_content))
    /\ UNCHANGED <<normVars, batchVars, metaVars, promptVars, truncVars, fmtVars, writeVars, cfgVars, callback_error, attempt, full_response, accumulated_content,
                   card_count, stopped_early, waits, provider_error,
                   lines_received>>

\* ClaudeCardGenerator.generate_flashcards enters "with ... stream(...)"
StartClaude ==
    /\ pc = "idle"
    /\ provider = "claude"
    /\ flashcard_content' = <<>>
    /\ pc' = "streaming"
    /\ UNCHANGED <<normVars, batchVars, metaVars, promptVars, truncVars, fmtVars, writeVars, cfgVars, callback_error, attempt, full_response, accumulated_content,
                   card_count, deck_file, returned, raised, interrupted,
                   sigint, stopped_early, waits, provider_error,
                   lines_received>>

\* for text in stream.text_stream: flashcard_content += text, then
\* progress_callback(text); nothing catches what the callback raises
ClaudeRecvText ==
    /\ pc = "streaming"
    /\ provider = "claude"
    /\ lines_received < MaxLines
    /\ \E text \in Chunks, outcome \in CallbackOutcomes :
         /\ flashcard_content' = flashcard_content \o text
         /\ callback_error' = outcome
         /\ IF outcome # "none"
            THEN /\ raised' = outcome
                 /\ pc' = "done"
            ELSE UNCHANGED <<raised, pc>>
    /\ lines_received' = lines_received + 1
    /\ UNCHANGED <<normVars, batchVars, metaVars, promptVars, truncVars, fmtVars, writeVars, cfgVars, attempt, full_response, accumulated_content,
                   card_count, deck_file, returned, interrupted,
                   sigint, stopped_early, waits, provider_error>>

\* the stream is exhausted: the text is written as it is
ClaudeStreamEnd ==
    /\ pc = "streaming"
    /\ provider = "claude"
    /\ deck_file' = flashcard_content
    /\ returned' = TRUE
    /\ pc' = "done"
    /\ UNCHANGED <<normVars, batchVars, metaVars, promptVars, truncVars, fmtVars, writeVars, cfgVars, callback_error, attempt, full_response, accumulated_content,
                   card_count, flashcard_content, raised, interrupted,
                   sigint, stopped_early, waits, provider_error,
                   lines_received>>

\* an exception of the API call: nothing catches it
ClaudeFails ==
    /\ pc = "streaming"
    /\ provider = "claude"
    /\ \E e \in {"APITimeoutError", "APIStatusError"} :
         /\ provider_error' = e
         /\ raised' = e
    /\ pc' = "done"
    /\ UNCHANGED <<normVars, batchVars, metaVars, promptVars, truncVars, fmtVars, writeVars, cfgVars, callback_error, attempt, full_response, accumulated_content,
                   card_count, flashcard_content, deck_file, returned,
                   interrupted, sigint, stopped_early, waits, lines_received>>

\* KeyboardInterrupt inside the stream: nothing catches it
InterruptClaude ==
    /\ pc = "streaming"
    /\ provider = "claude"
    /\ sigint' = TRUE
    /\ raised' = "KeyboardInterrupt"
    /\ pc' = "done"
    /\ UNCHANGED <<normVars, batchVars, metaVars, promptVars, truncVars, fmtVars, writeVars, cfgVars, callback_error, attempt, full_response, accumulated_content,
                   card_count, flashcard_content, deck_file, returned,
                   interrupted, stopped_early, waits, provider_error,
                   lines_received>>

\* the generation variables while another part of the pipeline is examined
GenIdle ==
    /\ provider = "ollama"
    /\ target_cards = 1
    /\ page_count = 0
    /\ max_retries = 0
    /\ timeout = <<>>
    /\ pc = "done"
    /\ attempt = 0
    /\ full_response = <<>>
    /\ accumulated_content = <<>>
    /\ callback_error = "none"
    /\ card_count = 0
    /\ flashcard_content = <<>>
    /\ deck_file = NoFile
    /\ returned = FALSE
    /\ raised = "none"
    /\ interrupted = FALSE
    /\ sigint = FALSE
    /\ stopped_early = FALSE
    /\ waits = <<>>
    /\ provider_error = "none"
    /\ lines_received = 0

\* the truncator's variables while another part of the pipeline is examined
TruncIdle ==
    /\ tpc = "done"
    /\ markdown_content = <<>>
    /\ context_length = 0
    /\ n_images = 0
    /\ truncated = <<>>
    /\ trunc_raised = "none"
    /\ content_tokens = 0

\* the normalizer's variables while another part of the pipeline is examined
NormIdle ==
    /\ npc = "twice"
    /\ doc = <<>>
    /\ norm_target = 0
    /\ out1 = <<>>
    /\ out2 = <<>>

\* parse_anki_tsv has not run
NoDeck == [deck_name |-> <<>>, cards |-> <<>>]

\* the validators' and the formatter's variables while another part of the
\* pipeline is examined
NoResult == [valid |-> TRUE, errors |-> <<>>, warnings |-> <<>>,
             card_count |-> 0, has_headers |-> FALSE]
FmtIdle ==
    /\ fpc = "done"
    /\ fdoc = <<>>
    /\ unit_tag = <<>>
    /\ vo = NoResult
    /\ tsv = [valid |-> TRUE, errors |-> <<>>]
    /\ nt1 = <<>>
    /\ nt2 = <<>>
    /\ formatted = <<>>
    /\ parsed = NoDeck

\* the file write's variables while another part of the pipeline is examined
WriteIdle ==
    /\ wpc = "closed"
    /\ to_write = <<>>
    /\ previous_file = NoFile
    /\ disk_file = NoFile

\* the prompt's variables while another part of the pipeline is examined
PromptIdle ==
    /\ ppc = "prompted"
    /\ content_len = 0
    /\ model_context = 0
    /\ marker_at = -1
    /\ kept_len = 0
    /\ notice_added = FALSE
    /\ embedded_len = 0
    /\ notice_embedded = 0

\* the extraction runs that may overlap, and the images they extract
Workers == {"a", "b"}
Filenames == {"p1", "p2"}

\* an image in a collection: no record, a record whose description, type and
\* contains_math are None, a record the enrichment pass filled
NotIn == "absent"
Undescribed == "None"
Described == "described"
Collections == [Filenames -> {NotIn, Undescribed, Described}]

\* _create_new_collection: images={}
EmptyCollection == [f \in Filenames |-> NotIn]

\* the length of json.dump's text grows with the records and their fields
JsonSize(images) ==
    1 + Cardinality({f \in Filenames : images[f] # NotIn})
      + Cardinality({f \in Filenames : images[f] = Described})

\* a path's content: no file, a complete JSON document of a collection, or
\* bytes that are no JSON document (an empty file included)
NoMetaFile == [kind |-> "absent", images |-> EmptyCollection, size |-> 0]
StoreFile(images) ==
    [kind |-> "store", images |-> images, size |-> JsonSize(images)]
TornFile(n) == [kind |-> "torn", images |-> EmptyCollection, size |-> n]

\* a file object opened with 'w' writes its text at offset 0 when it is
\* closed: a longer text that is already in the file keeps its tail
Overwrite(old, images) ==
    IF JsonSize(images) >= old.size THEN StoreFile(images)
    ELSE TornFile(old.size)

\* MetadataStorage.load, the collection it leaves: the file's images, or a
\* new collection when the file is missing or json.load raises
LoadedCollection(file) ==
    IF file.kind = "store" THEN file.images ELSE EmptyCollection

\* the metadata store's variables while another part of the pipeline is
\* examined
NotRead == [had |-> FALSE, file |-> NoMetaFile]
MetaIdle ==
    /\ meta_file = NoMetaFile
    /\ bak_file = NoMetaFile
    /\ mpc = [w \in Workers |-> "exited"]
    /\ collection = [w \in Workers |-> EmptyCollection]
    /\ fd = [w \in Workers |-> "closed"]
    /\ observed = NotRead
    /\ had_store = FALSE
    /\ persisted = {}
    /\ described_once = {}

\* the batch command's variables while another part of the pipeline is
\* examined
BatchIdle ==
    /\ bpc = "exited"
    /\ command = "generate"
    /\ unit_outcomes = <<>>
    /\ results = <<>>
    /\ reported = {}
    /\ command_result = "none"
    /\ exit_status = 0

\* the configured timeouts: 0 and -1 disable it, 30 is the default
Timeouts == {-1, 0, 30}

\* the state when generate_flashcards is called; the Claude generator has no
\* retry loop, timeout or page count of its own
Init ==
    /\ NormIdle
    /\ TruncIdle
    /\ FmtIdle
    /\ WriteIdle
    /\ PromptIdle
    /\ MetaIdle
    /\ BatchIdle
    /\ provider \in {"ollama", "claude"}
    /\ target_cards \in 1..MaxTarget
    /\ IF provider = "ollama"
       THEN /\ page_count \in 0..MaxPages
            /\ max_retries \in 0..MaxRetries
            /\ timeout \in {ClientTimeout(t) : t \in Timeouts}
       ELSE /\ page_count = 0
            /\ max_retries = 0
            /\ timeout = <<>>
    /\ pc = "idle"
    /\ attempt = 0
    /\ full_response = <<>>
    /\ accumulated_content = <<>>
    /\ callback_error = "none"
    /\ card_count = 0
    /\ flashcard_content = <<>>
    /\ deck_file = NoFile
    /\ returned = FALSE
    /\ raised = "none"
    /\ interrupted = FALSE
    /\ sigint = FALSE
    /\ stopped_early = FALSE
    /\ waits = <<>>
    /\ provider_error = "none"
    /\ lines_received = 0

Next ==
    \/ StartOllama
    \/ RecvChunk
    \/ RecvIgnoredLine
    \/ StreamEnd
    \/ ProviderFails
    \/ Timeout
    \/ WakeUp
    \/ InterruptOllama
    \/ StartClaude
    \/ ClaudeRecvText
    \/ ClaudeStreamEnd
    \/ ClaudeFails
    \/ InterruptClaude

Spec == Init /\ [][Next]_vars

\* The client's own steps happen: a running timer expires when nothing else
\* ends the attempt, and time.sleep returns. The provider and the user are
\* under no obligation.
FairSpec == Spec /\ WF_vars(Timeout) /\ WF_vars(WakeUp) /\ WF_vars(StartOllama)

\* ------------------------------------------------------------------------
\* Properties of a generation run (checked under Spec and FairSpec)
\* ------------------------------------------------------------------------
\* the text the controller has accumulated from the stream
Accumulated ==
    IF provider = "ollama" THEN Concat(accumulated_content)
                           ELSE flashcard_content

\* the number of lines of a text that hold 2 or more tabs, the last line
\* counted whether or not it is terminated
TabLineCount(text) ==
    LET lines == SplitLines(text)
    IN  Cardinality({i \in 1..Len(lines) :
            Cardinality({j \in 1..Len(lines[i]) : lines[i][j] = "\t"}) >= 2})

\* the same count over the complete lines only: those a newline terminates
CompleteTabLineCount(text) ==
    LET lines == SplitLines(text)
    IN  Cardinality({i \in 1..(Len(lines) - 1) :
            Cardinality({j \in 1..Len(lines[i]) : lines[i][j] = "\t"}) >= 2})

\* the lines of a file, as readlines yields them: the piece after a final
\* newline is no line
FileLines(content) ==
    LET pieces == SplitLines(content)
    IN  IF pieces[Len(pieces)] = <<>>
        THEN SubSeq(pieces, 1, Len(pieces) - 1)
        ELSE pieces

\* C1: an interruption that arrives after at least one chunk was accumulated
\* does not fail the run: the accumulated text, normalized to the target, is
\* written to the deck file and the path is returned, for every provider.
C1_PartialSavedOnInterrupt ==
    (pc = "done" /\ sigint /\ Accumulated # <<>>) =>
        /\ raised = "none"
        /\ returned
        /\ deck_file = truncate_to_target(Accumulated, effective_target)

\* C2: an interruption that arrives before any chunk was accumulated is
\* propagated: no path is returned and no deck file is written.
C2_InterruptPropagatesWhenEmpty ==
    (pc = "done" /\ sigint /\ Accumulated = <<>>) =>
        /\ raised = "KeyboardInterrupt"
        /\ ~returned
        /\ deck_file = NoFile

\* the Ollama generator was interrupted while streaming, after response
\* lines that carried no text
C2_Witness ==
    /\ pc = "done"
    /\ provider = "ollama"
    /\ sigint
    /\ accumulated_content = <<>>
    /\ lines_received > 0

CallFailures ==
    {"TimeoutException", "HTTPStatusError", "APITimeoutError", "APIStatusError"}

\* C4: a run that ends because the provider call failed and the retry budget
\* is exhausted raises an error that is the provider's error, returns no
\* path and writes no deck file.
C4_FailureSurfacesProviderError ==
    (/\ pc = "done"
     /\ provider_error \in CallFailures
     /\ (provider = "ollama") => (attempt + 1 >= max_retries)
     /\ ~returned
     /\ ~sigint) =>
        /\ raised = provider_error
        /\ deck_file = NoFile

\* C5 (as stated): generate_text always terminates.
C5_AlwaysTerminates == (provider = "ollama") => <>(pc = "done")

\* C5 (amended): at most max_retries attempts are made; a timed-out attempt
\* k that is not the last is followed by a wait of 2^k and the last by none;
\* and the call terminates whenever the timeout is not disabled.
C5_BoundedRetriesWithBackoff ==
    /\ []((provider = "ollama" /\ pc \in {"streaming", "backoff"}) =>
            /\ attempt < max_retries
            /\ Len(waits) = attempt + (IF pc = "backoff" THEN 1 ELSE 0))
    /\ [](/\ \A i \in 1..Len(waits) : waits[i] = 2^(i - 1)
          /\ (waits # <<>>) => (Len(waits) <= max_retries - 1))
    /\ [][(pc = "streaming" /\ pc' = "backoff") =>
            /\ attempt < max_retries - 1
            /\ waits' = Append(waits, 2^attempt)]_vars
    /\ [][(pc = "backoff" /\ pc' = "streaming") =>
            /\ attempt' = attempt + 1
            /\ waits' = waits]_vars
    /\ (provider = "ollama" /\ timeout # <<>>) => <>(pc = "done")

\* every attempt of a budget of 3 timed out: two waits, then the failure
C5_Witness ==
    /\ pc = "done"
    /\ max_retries = 3
    /\ waits = <<1, 2>>
    /\ provider_error = "TimeoutException"
    /\ raised = OllamaFailed

\* C9: every line after the 4 header lines of a deck file that
\* generate_flashcards wrote has exactly 2 tabs, whatever was streamed.
C9_RowsHaveThreeFields ==
    returned =>
        \A i \in 5..Len(FileLines(deck_file)) :
            CountTabs(FileLines(deck_file)[i]) = 2


\* C26: during an attempt of an Ollama run the generator's accumulator (what
\* an interruption saves and what the running card count is computed from)
\* is the text of the current attempt, the text generate_text holds for its
\* stop condition; an abandoned attempt's chunks are not part of it.
C26_AccumulatorIsCurrentAttempt ==
    (provider = "ollama" /\ pc = "streaming") =>
        /\ Concat(accumulated_content) = full_response
        /\ card_count = CountCardLines(full_response)

\* C24: the progress callback is a side effect only. A step in which the
\* callback raised leaves the run as a callback that does nothing leaves it:
\* no error is raised by it, and the run either goes on streaming or has
\* stopped early on the text received and saved the deck.
C24_CallbackIsSideEffectOnly ==
    [][(callback_error = "none" /\ callback_error' # "none") =>
           /\ raised' = raised
           /\ IF provider = "ollama" /\ should_stop(full_response')
              THEN pc' = "done" /\ returned' /\ stopped_early'
              ELSE pc' = "streaming"]_vars

\* C27: the deck document generate_flashcards persisted holds no more card
\* lines than the target_cards the caller passed, for both providers and
\* every outcome that writes the file.
C27_DeckWithinCallersTarget ==
    returned => CountCardLines(deck_file) <= target_cards

\* ------------------------------------------------------------------------
\* OllamaCardGenerator._check_and_truncate_for_context
\* ------------------------------------------------------------------------
\* prompt_overhead = 2000
prompt_overhead == 2000
\* image_tokens = len(images) * 50
tokens_per_image == 50
\* output_tokens = int(target_cards * 100 * 1.2): 120 tokens a card
tokens_per_card == 120

\* the literal '\n## '
SectionMarker == <<"\n", "#", "#", " ">>

\* the literal '\n\n[... content truncated due to context length limits ...]\n'
TruncationNotice ==
    <<"\n", "\n", "[", ".", ".", ".", " ", "c", "o", "n", "t", "e", "n", "t",
      " ", "t", "r", "u", "n", "c", "a", "t", "e", "d", " ", "d", "u", "e",
      " ", "t", "o", " ", "c", "o", "n", "t", "e", "x", "t", " ", "l", "e",
      "n", "g", "t", "h", " ", "l", "i", "m", "i", "t", "s", " ", ".", ".",
      ".", "]", "\n">>

\* a variant that rounds up
estimate_tokens_ceil(text) == (Len(text) + 3) \div 4

\* OllamaClient.estimate_tokens: len(text) // 4
estimate_tokens(text) == Len(text) \div 4

\* s.rfind(pat): the 0-based index of the last occurrence, -1 when none
RFind(s, pat) ==
    LET hits == {i \in 0..(Len(s) - Len(pat)) :
                     SubSeq(s, i + 1, i + Len(pat)) = pat}
    IN  IF hits = {} THEN -1
        ELSE CHOOSE i \in hits : \A j \in hits : j <= i

\* available_for_content as the caller (generate_flashcards) leaves it:
\* context_length - prompt_overhead - image_tokens - output_tokens
available_for_content ==
    context_length - prompt_overhead - n_images * tokens_per_image
        - effective_target * tokens_per_card

\* a variant that sends content of exactly the budget to the cut
FitsBudgetStrict(tokens, available) == tokens < available

\* line 285: if content_tokens <= available_for_content: return markdown_content
FitsBudget(tokens, available) == tokens <= available

\* keep_ratio = max(0.5, (available / content_tokens) * 0.9) as the fraction
\* <<numerator, denominator>>, content_tokens > available and > 0
keep_ratio(available, tokens) ==
    IF 18 * available > 10 * tokens
    THEN <<9 * available, 10 * tokens>>
    ELSE <<1, 2>>

\* target_chars = int(len(markdown_content) * keep_ratio)
target_chars(content, available) ==
    LET r == keep_ratio(available, estimate_tokens(content))
    IN  (Len(content) * r[1]) \div r[2]

\* lines 303-309: the slice at target_chars, cut back to the last section
\* marker when that keeps more than 70% of it (last_section >
\* target_chars * 0.7; the float product is the exact 7n/10 for every
\* n < 90 that is a multiple of 10)
CutAtBoundary(content, n_chars) ==
    LET cut == SubSeq(content, 1, n_chars)
        last_section == RFind(cut, SectionMarker)
    IN  IF 10 * last_section > 7 * n_chars
        THEN SubSeq(cut, 1, last_section)
        ELSE cut

\* the markdown of a unit: up to MaxSegments segments, each a word of seven
\* characters, a section marker or a single character (27 characters with
\* a marker at index 14 is the shortest unit whose marker sits at exactly
\* 70% of its cut)
Segments == {<<"a", "b", "c", "d", "e", "f", "g">>, SectionMarker, <<"x">>}
Markdowns ==
    {Concat(segs) : segs \in UNION {[1..n -> Segments] : n \in 0..MaxSegments}}

\* the unit and the model's context length when the truncator is called;
\* the context lengths leave -1 to MaxAvailable tokens to a unit without images
InitTrunc ==
    /\ GenIdle
    /\ NormIdle
    /\ FmtIdle
    /\ WriteIdle
    /\ PromptIdle
    /\ MetaIdle
    /\ BatchIdle
    /\ tpc = "call"
    /\ markdown_content \in Markdowns
    /\ n_images \in 0..MaxImages
    /\ \E slack \in (-1)..MaxAvailable :
         context_length = prompt_overhead + tokens_per_card + slack
    /\ truncated = <<>>
    /\ trunc_raised = "none"
    /\ content_tokens = 0

\* the whole call
CheckAndTruncate ==
    /\ tpc = "call"
    /\ tpc' = "done"
    /\ content_tokens' = estimate_tokens(markdown_content)
    /\ IF FitsBudget(content_tokens', available_for_content)
       THEN /\ truncated' = markdown_content
            /\ UNCHANGED trunc_raised
       ELSE IF content_tokens' = 0
       THEN \* keep_ratio = available_for_content / content_tokens
            /\ trunc_raised' = "ZeroDivisionError"
            /\ UNCHANGED truncated
       ELSE /\ truncated' =
                  CutAtBoundary(markdown_content,
                      target_chars(markdown_content, available_for_content))
                  \o TruncationNotice
            /\ UNCHANGED trunc_raised
    /\ UNCHANGED <<normVars, batchVars, metaVars, promptVars, genVars, fmtVars, writeVars, markdown_content, context_length, n_images>>

NextTrunc == CheckAndTruncate

SpecTrunc == InitTrunc /\ [][NextTrunc]_vars

\* ------------------------------------------------------------------------
\* Properties of the content truncator (checked under SpecTrunc)
\* ------------------------------------------------------------------------
\* C10: truncate returns normally, with a result that is no longer than the
\* original and no shorter than half of it, for every content (the empty and
\* the shorter than 4 characters included) and every budget (zero and
\* negative included).
C10_ResultBetweenHalfAndWhole ==
    (tpc = "done") =>
        /\ trunc_raised = "none"
        /\ Len(truncated) <= Len(markdown_content)
        /\ 2 * Len(truncated) >= Len(markdown_content)

\* C11: content whose estimated token count is at most the available budget
\* is returned unchanged, with no cut and no truncation notice.
C11_NoOpBelowBudget ==
    (tpc = "done" /\ Len(markdown_content) \div 4 <= available_for_content) =>
        /\ trunc_raised = "none"
        /\ truncated = markdown_content

\* a non-empty unit of exactly the budget came back whole
C11_Witness ==
    /\ tpc = "done"
    /\ Len(markdown_content) >= 4
    /\ Len(markdown_content) \div 4 = available_for_content
    /\ truncated = markdown_content

\* the text the call kept: its result without the truncation notice
RetainedText ==
    SubSeq(truncated, 1, Len(truncated) - Len(TruncationNotice))

\* floor(len(content) * max(0.5, (available / estimate) * 0.9))
StatedCut ==
    LET estimate == Len(markdown_content) \div 4
        available == available_for_content
    IN  IF 18 * available > 10 * estimate
        THEN (Len(markdown_content) * 9 * available) \div (10 * estimate)
        ELSE Len(markdown_content) \div 2

\* the 0-based index of the last section marker that lies inside the first
\* n characters of the unit, -1 when there is none
LastBoundaryWithin(n) ==
    LET hits == {i \in 0..(n - Len(SectionMarker)) :
                   SubSeq(markdown_content, i + 1, i + Len(SectionMarker))
                       = SectionMarker}
    IN  IF hits = {} THEN -1
        ELSE CHOOSE i \in hits : \A j \in hits : j <= i

\* C12: for over-budget content the retained text is the prefix of length
\* cut = floor(len * max(0.5, available / estimate * 0.9)), except that it
\* ends at the last section boundary inside that prefix when the boundary
\* retains at least 70% of cut, exactly 70% included.
C12_CutOrBoundaryAtLeast70 ==
    (tpc = "done" /\ trunc_raised = "none"
        /\ Len(markdown_content) \div 4 > available_for_content) =>
        LET b == LastBoundaryWithin(StatedCut)
        IN  RetainedText =
                IF b >= 0 /\ 10 * b >= 7 * StatedCut
                THEN SubSeq(markdown_content, 1, b)
                ELSE SubSeq(markdown_content, 1, StatedCut)

\* C25: for every text t, estimate_tokens(t) is len(t) integer-divided by 4:
\* the largest e with 4 * e <= len(t); it is a function of t alone, whatever
\* the context length and the images of the call.
C25_EstimateIsLenDiv4 ==
    (tpc = "done") =>
        /\ 4 * content_tokens <= Len(markdown_content)
        /\ Len(markdown_content) < 4 * content_tokens + 4

\* the estimate of a text whose length is not a multiple of 4
C25_Witness ==
    /\ tpc = "done"
    /\ Len(markdown_content) = 15
    /\ content_tokens = 3

\* the budget cannot be met even by the half of the unit the 50% floor keeps
Infeasible ==
    /\ Len(markdown_content) \div 4 > available_for_content
    /\ (Len(markdown_content) \div 2) \div 4 > available_for_content

\* C13: when the content cannot be reduced to fit the budget even at the 50%
\* floor (a zero or negative budget in particular) the call fails instead of
\* returning, so no content that still exceeds the budget goes on to the
\* provider.
C13_InfeasibleEscalates ==
    (tpc = "done" /\ Infeasible) =>
        /\ trunc_raised # "none"
        /\ truncated = <<>>

\* ------------------------------------------------------------------------
\* The normalizer on raw documents
\* ------------------------------------------------------------------------
\* The lines raw documents are made of: the column header, two different
\* well-formed cards, an empty line, a line without tabs, a line of tabs only.
DocLineKinds == {ColumnHeader, CardA, CardB, <<>>, <<"x">>, <<"\t", "\t">>}

RawDocLines == UNION {[1..n -> DocLineKinds] : n \in 1..MaxDocLines}

InitNorm ==
    /\ GenIdle
    /\ TruncIdle
    /\ FmtIdle
    /\ WriteIdle
    /\ PromptIdle
    /\ MetaIdle
    /\ BatchIdle
    /\ npc = "raw"
    /\ \E ls \in RawDocLines : doc = JoinLines(ls)
    /\ norm_target \in 0..MaxNormTarget
    /\ out1 = <<>>
    /\ out2 = <<>>

\* flashcard_content = self._truncate_to_target(flashcard_content, target)
Normalize ==
    /\ npc = "raw"
    /\ out1' = truncate_to_target(doc, norm_target)
    /\ npc' = "once"
    /\ UNCHANGED <<doc, norm_target, out2, genVars, truncVars, fmtVars, writeVars, promptVars, metaVars, batchVars>>

\* the same call on its own result
NormalizeAgain ==
    /\ npc = "once"
    /\ out2' = truncate_to_target(out1, norm_target)
    /\ npc' = "twice"
    /\ UNCHANGED <<doc, norm_target, out1, genVars, truncVars, fmtVars, writeVars, promptVars, metaVars, batchVars>>

NextNorm == Normalize \/ NormalizeAgain

SpecNorm == InitNorm /\ [][NextNorm]_vars

\* ------------------------------------------------------------------------
\* Properties of the normalizer (checked under SpecNorm)
\* ------------------------------------------------------------------------
\* the position of the column-header line of a document, 0 when it has none
HeaderIndex(lines) ==
    IF \E i \in 1..Len(lines) : StartsWith(lines[i], ColumnHeader)
    THEN CHOOSE i \in 1..Len(lines) :
             /\ StartsWith(lines[i], ColumnHeader)
             /\ \A j \in 1..(i - 1) : ~StartsWith(lines[j], ColumnHeader)
    ELSE 0

\* a candidate card line: at least 2 tabs and not blank
IsCandidate(line) ==
    /\ Cardinality({i \in 1..Len(line) : line[i] = "\t"}) >= 2
    /\ \E i \in 1..Len(line) : line[i] \notin {" ", "\t", "\n", "\r"}

\* the candidate card lines of a document: those after its column header
Candidates(lines) ==
    SelectSeq(SubSeq(lines, HeaderIndex(lines) + 1, Len(lines)), IsCandidate)

\* the lines of a document after its header block that have at least 2 tabs
TabLinesAfterHeader(lines) ==
    {i \in (HeaderIndex(lines) + 1)..Len(lines) : CountTabs(lines[i]) >= 2}

\* C6: the normalizer is idempotent: normalizing the normalized document
\* again at the same target yields the same document, also for a document
\* without a column-header line.
C6_Idempotent == (npc = "twice") => (out2 = out1)

\* C7: the normalized document keeps the header block (the lines up to and
\* including the column header) verbatim and holds at most norm_target lines
\* with 2 or more tabs after it, also when there is no column-header line.
C7_HeaderKeptAtMostTargetCards ==
    (npc # "raw") =>
        LET inL  == SplitLines(doc)
            outL == SplitLines(out1)
            h    == HeaderIndex(inL)
        IN  /\ Len(outL) >= h
            /\ SubSeq(outL, 1, h) = SubSeq(inL, 1, h)
            /\ Cardinality(TabLinesAfterHeader(outL)) <= norm_target

RECURSIVE SplitTabs(_)
SplitTabs(s) ==
    IF \A i \in 1..Len(s) : s[i] # TAB
    THEN <<s>>
    ELSE LET i == CHOOSE k \in 1..Len(s) :
                      s[k] = TAB /\ \A j \in 1..(k - 1) : s[j] # TAB
         IN  <<SubSeq(s, 1, i - 1)>> \o SplitTabs(SubSeq(s, i + 1, Len(s)))

\* s.strip(): without the whitespace at both ends
Strip(s) ==
    LET solid == {i \in 1..Len(s) : s[i] \notin Whitespace}
    IN  IF solid = {} THEN <<>>
        ELSE SubSeq(s, CHOOSE i \in solid : \A j \in solid : i <= j,
                       CHOOSE i \in solid : \A j \in solid : j <= i)

\* s.split(): the maximal runs of non-whitespace characters, in order
RECURSIVE SplitWords(_)
SplitWords(s) ==
    LET t == Strip(s)
        gaps == {i \in 1..Len(t) : t[i] \in Whitespace}
    IN  IF t = <<>> THEN <<>>
        ELSE IF gaps = {} THEN <<t>>
        ELSE LET g == CHOOSE i \in gaps : \A j \in gaps : i <= j
             IN  <<SubSeq(t, 1, g - 1)>> \o SplitWords(SubSeq(t, g + 1, Len(t)))

\* ' '.join(words)
RECURSIVE JoinWords(_)
JoinWords(words) ==
    IF words = <<>> THEN <<>>
    ELSE IF Len(words) = 1 THEN words[1]
    ELSE words[1] \o <<" ">> \o JoinWords(Tail(words))

\* sub in s
Contains(s, sub) ==
    \E i \in 0..(Len(s) - Len(sub)) : SubSeq(s, i + 1, i + Len(sub)) = sub

\* f.readlines(): the lines with their '\n' terminators; no line for the
\* empty rest after a final newline
RECURSIVE ReadLines(_)
ReadLines(content) ==
    IF content = <<>> THEN <<>>
    ELSE IF \A i \in 1..Len(content) : content[i] # NL THEN <<content>>
    ELSE LET i == CHOOSE k \in 1..Len(content) :
                      content[k] = NL /\ \A j \in 1..(k - 1) : content[j] # NL
         IN  <<SubSeq(content, 1, i)>>
                 \o ReadLines(SubSeq(content, i + 1, Len(content)))

\* ------------------------------------------------------------------------
\* validate_output (the same code in OllamaCardGenerator and
\* ClaudeCardGenerator) and AnkiFormatter.validate_tsv
\* ------------------------------------------------------------------------
\* a message of the errors or warnings list: the 1-based line it is about
\* (0 for the document), its text and the number it quotes (0 when none)
Msg(line_no, text, n) == <<line_no, text, n>>

\* errors.append(msg) under a condition
AppendIf(cond, msg) == IF cond THEN <<msg>> ELSE <<>>

\* validate_output's loop over lines[4:], enumerate(..., start=5)
RECURSIVE ColumnWarnings(_, _)
ColumnWarnings(lines, i) ==
    IF i > Len(lines) THEN <<>>
    ELSE AppendIf(StripNonEmpty(lines[i]) /\ Len(SplitTabs(lines[i])) # 3,
                  Msg(i, "Expected 3 columns", Len(SplitTabs(lines[i]))))
             \o ColumnWarnings(lines, i + 1)

\* validate_output on a file of this content
validate_output(content) ==
    LET lines == ReadLines(content) IN
    IF Len(lines) < 4
    THEN [valid |-> FALSE,
          errors |-> <<Msg(0, "File too short - missing headers", 0)>>,
          warnings |-> <<>>, card_count |-> 0, has_headers |-> FALSE]
    ELSE LET has_column_header == StartsWith(lines[4], ColumnHeader)
             errors ==
                 AppendIf(Strip(lines[1]) # SeparatorLine,
                          Msg(0, "Missing #separator:tab header", 0))
                 \o AppendIf(Strip(lines[2]) # HtmlLine,
                             Msg(0, "Missing #html:true header", 0))
                 \o AppendIf(Strip(lines[3]) # TagsLine,
                             Msg(0, "Missing #tags column:3 header", 0))
                 \o AppendIf(~has_column_header,
                             Msg(0, "Missing column headers", 0))
         IN  [valid |-> errors = <<>>,
              errors |-> errors,
              warnings |-> ColumnWarnings(lines, 5),
              card_count |-> Len(lines) - 4,
              has_headers |-> has_column_header]

\* the lines validate_tsv, normalize_tags and generate_statistics pass over:
\* line.startswith('#') or line == 'Front\tBack\tTags' or not line.strip()
IsSkippedLine(line) ==
    \/ StartsWith(line, <<"#">>)
    \/ line = ColumnHeader
    \/ ~StripNonEmpty(line)

\* validate_tsv's loop over enumerate(lines, 1): the pair (errors, card_count)
RECURSIVE RowErrors(_, _, _, _)
RowErrors(lines, i, errors, count) ==
    IF i > Len(lines) THEN <<errors, count>>
    ELSE LET parts == SplitTabs(lines[i]) IN
         IF IsSkippedLine(lines[i])
         THEN RowErrors(lines, i + 1, errors, count)
         ELSE IF Len(parts) # 3
         THEN RowErrors(lines, i + 1,
                        Append(errors, Msg(i, "Wrong number of columns", Len(parts))),
                        count)
         ELSE RowErrors(lines, i + 1,
                        errors
                          \o AppendIf(~StripNonEmpty(parts[1]), Msg(i, "Empty front field", 0))
                          \o AppendIf(~StripNonEmpty(parts[2]), Msg(i, "Empty back field", 0))
                          \o AppendIf(~StripNonEmpty(parts[3]), Msg(i, "Empty tags field", 0)),
                        count + 1)

\* AnkiFormatter.validate_tsv(content): (is_valid, errors)
validate_tsv(content) ==
    LET lines == SplitLines(content)
        header_errors ==
            AppendIf(~StartsWith(content, SeparatorLine),
                     Msg(0, "Missing #separator:tab header", 0))
            \o AppendIf(~Contains(content, HtmlLine),
                        Msg(0, "Missing #html:true header", 0))
            \o AppendIf(~Contains(content, TagsLine),
                        Msg(0, "Missing #tags column:3 header", 0))
            \o AppendIf(~(\E k \in 1..Len(lines) : lines[k] = ColumnHeader),
                        Msg(0, "Missing column headers", 0))
        rows == RowErrors(lines, 1, header_errors, 0)
        errors == rows[1]
                    \o AppendIf(rows[2] = 0, Msg(0, "No flashcards found in content", 0))
    IN  [valid |-> errors = <<>>, errors |-> errors]

\* ------------------------------------------------------------------------
\* AnkiFormatter.normalize_tags
\* ------------------------------------------------------------------------
\* if unit_tag in tag_list: tag_list.remove(unit_tag): drops the first
\* occurrence only
RemoveFirst(tag_list, tag) ==
    LET at == {i \in 1..Len(tag_list) : tag_list[i] = tag}
    IN  IF at = {} THEN tag_list
        ELSE LET i == CHOOSE k \in at : \A j \in at : k <= j
             IN  SubSeq(tag_list, 1, i - 1) \o SubSeq(tag_list, i + 1, Len(tag_list))

\* a variant that keeps repeated tags
KeepRepeats(tag_list) == tag_list

\* lines 250-255: the tags in first-occurrence order, each once
Dedup(tag_list) ==
    LET first == {i \in 1..Len(tag_list) :
                     \A j \in 1..(i - 1) : tag_list[j] # tag_list[i]}
        Pick[i \in 0..Len(tag_list)] ==
            IF i = 0 THEN <<>>
            ELSE IF i \in first THEN Append(Pick[i - 1], tag_list[i])
            ELSE Pick[i - 1]
    IN  Pick[Len(tag_list)]

\* a variant that puts the unit tag in front without looking at the rest
PrependOnly(tag_list, tag) == <<tag>> \o tag_list

\* lines 245-255: unit tag first, then the other tags, each once
unique_tags(tag_list, tag) == Dedup(<<tag>> \o RemoveFirst(tag_list, tag))

\* the body of the loop over lines
NormalizeTagsLine(line, tag) ==
    LET parts == SplitTabs(line) IN
    IF IsSkippedLine(line) \/ Len(parts) # 3 THEN line
    ELSE parts[1] \o <<TAB>> \o parts[2] \o <<TAB>>
             \o JoinWords(unique_tags(SplitWords(parts[3]), tag))

\* AnkiFormatter.normalize_tags(cards, unit_tag)
normalize_tags(cards, tag) ==
    LET lines == SplitLines(cards)
    IN  JoinLines([i \in 1..Len(lines) |-> NormalizeTagsLine(lines[i], tag)])

\* ------------------------------------------------------------------------
\* AnkiFormatter.format_cards, _fix_common_issues, _fix_image_paths
\* ------------------------------------------------------------------------
\* the literal '../images/'
ImagesPrefix == <<".", ".", "/", "i", "m", "a", "g", "e", "s", "/">>
\* the fixed parts of the pattern r'<img\s+src="([^"]+)"'
ImgOpen == <<"<", "i", "m", "g">>
SrcOpen == <<"s", "r", "c", "=", "\"">>

\* os.path.basename(path): what follows the last '/'
Basename(path) ==
    LET slashes == {i \in 1..Len(path) : path[i] = "/"}
    IN  IF slashes = {} THEN path
        ELSE SubSeq(path, (CHOOSE i \in slashes : \A j \in slashes : j <= i) + 1,
                    Len(path))

\* s.replace(old, new): every occurrence, left to right, not overlapping
RECURSIVE Replace(_, _, _)
Replace(s, old, new) ==
    IF Len(s) < Len(old) \/ old = <<>> THEN s
    ELSE IF SubSeq(s, 1, Len(old)) = old
    THEN new \o Replace(SubSeq(s, Len(old) + 1, Len(s)), old, new)
    ELSE <<s[1]>> \o Replace(Tail(s), old, new)

\* the match of the pattern at the start of text: <<length of the match,
\* first and last index of group 1>>, <<>> when the pattern does not match
MatchImg(text) ==
    LET n == Len(text)
        after_ws == CHOOSE k \in 5..(n + 1) :
                        /\ \A j \in 5..(k - 1) : text[j] \in Whitespace
                        /\ (k = n + 1 \/ text[k] \notin Whitespace)
        p == after_ws + Len(SrcOpen)
        quotes == {k \in p..n : text[k] = "\""}
        q == CHOOSE k \in quotes : \A j \in quotes : k <= j
    IN  IF n < 5 \/ SubSeq(text, 1, 4) # ImgOpen THEN <<>>
        ELSE IF after_ws = 5 THEN <<>>
        ELSE IF SubSeq(text, after_ws, p - 1) # SrcOpen THEN <<>>
        ELSE IF quotes = {} THEN <<>>
        ELSE IF q = p THEN <<>>
        ELSE <<q, p, q - 1>>

\* fix_path(match): the replacement for one matched tag
fix_path(full_tag, path) ==
    IF ~StartsWith(path, ImagesPrefix)
    THEN Replace(full_tag, path, ImagesPrefix \o Basename(path))
    ELSE full_tag

\* re.sub(pattern, fix_path, text)
RECURSIVE fix_image_paths(_)
fix_image_paths(text) ==
    IF text = <<>> THEN <<>>
    ELSE LET m == MatchImg(text) IN
         IF m = <<>> THEN <<text[1]>> \o fix_image_paths(Tail(text))
         ELSE fix_path(SubSeq(text, 1, m[1]), SubSeq(text, m[2], m[3]))
                  \o fix_image_paths(SubSeq(text, m[1] + 1, Len(text)))

\* _fix_common_issues' loop over lines (_fix_mathjax returns its argument)
RECURSIVE FixLines(_)
FixLines(lines) ==
    IF lines = <<>> THEN <<>>
    ELSE LET line == Head(lines)
             parts == SplitTabs(line)
         IN  IF StartsWith(line, <<"#">>) \/ line = ColumnHeader
             THEN <<line>> \o FixLines(Tail(lines))
             ELSE IF ~StripNonEmpty(line) \/ Len(parts) # 3
             THEN FixLines(Tail(lines))
             ELSE <<Strip(parts[1]) \o <<TAB>>
                      \o fix_image_paths(Strip(parts[2])) \o <<TAB>>
                      \o Strip(parts[3])>>
                  \o FixLines(Tail(lines))

\* the literal "#separator:tab\n#html:true\n#tags column:3\nFront\tBack\tTags\n"
CanonicalHeader == <<SeparatorLine, HtmlLine, TagsLine, ColumnHeader>>
HeaderBlock == JoinLines(CanonicalHeader) \o <<NL>>

\* AnkiFormatter.format_cards(raw_cards, unit_name)
format_cards(raw_cards) ==
    JoinLines(FixLines(SplitLines(
        IF ~StartsWith(raw_cards, SeparatorLine)
        THEN HeaderBlock \o raw_cards
        ELSE raw_cards)))

\* ------------------------------------------------------------------------
\* parse_anki_tsv (src/tsv_parser.py), the parser of the packaging step
\* ------------------------------------------------------------------------
\* the literals 'Front', 'Back', 'Tags' and '#deck:'
FrontWord == <<"F", "r", "o", "n", "t">>
BackWord == <<"B", "a", "c", "k">>
TagsWord == <<"T", "a", "g", "s">>
DeckDirective == <<"#", "d", "e", "c", "k", ":">>

\* deck_name is None after the header loop: the name is made of the
\* subject's short name and the file's stem
DefaultDeckName == <<"s", " ", "-", " ", "U">>

\* the header loop over enumerate(lines): the pair (header_end, deck_name),
\* i counting from 1, <<>> standing for None
RECURSIVE ParseHeader(_, _, _, _)
ParseHeader(lines, i, header_end, name) ==
    IF i > Len(lines) THEN <<header_end, name>>
    ELSE LET line == Strip(lines[i]) IN
         IF line = <<>> THEN ParseHeader(lines, i + 1, header_end, name)
         ELSE IF StartsWith(line, <<"#">>)
         THEN ParseHeader(lines, i + 1, i,
                  IF StartsWith(line, DeckDirective)
                  THEN <<Strip(SubSeq(line, 7, Len(line)))>>
                  ELSE name)
         ELSE IF /\ Contains(line, FrontWord)
                 /\ Contains(line, BackWord)
                 /\ Contains(line, TagsWord)
         THEN <<i, name>>
         ELSE <<header_end, name>>

\* the loop over range(header_end, len(lines)): the cards appended
RECURSIVE ParseCards(_, _)
ParseCards(lines, i) ==
    IF i > Len(lines) THEN <<>>
    ELSE LET line == Strip(lines[i])
             parts == SplitTabs(line)
         IN  (IF line = <<>> \/ StartsWith(line, <<"#">>) \/ Len(parts) # 3
              THEN <<>>
              ELSE <<[front |-> Strip(parts[1]), back |-> Strip(parts[2]),
                      tags |-> SplitWords(parts[3])]>>)
                 \o ParseCards(lines, i + 1)

\* parse_anki_tsv on a file of this content
parse_anki_tsv(content) ==
    LET lines == ReadLines(content)
        header == ParseHeader(lines, 1, 0, <<>>)
    IN  [deck_name |-> IF header[2] = <<>> THEN DefaultDeckName
                       ELSE header[2][1],
         cards |-> ParseCards(lines, header[1] + 1)]

\* ------------------------------------------------------------------------
\* The validators and the formatter applied to one document (SpecFmt)
\* ------------------------------------------------------------------------
\* the header a generated document starts with: none, the canonical four
\* lines, the column header alone, the separator directive alone
HeaderChoices == {<<>>, CanonicalHeader, <<ColumnHeader>>, <<SeparatorLine>>}

\* 'q\tr\tt u t': a card whose tags repeat and hold a unit tag in the middle
TaggedRow == <<"q", "\t", "r", "\t", "t", " ", "u", " ", "t">>
\* '\tb\tc': a row with an empty front
EmptyFrontRow == <<"\t", "b", "\t", "c">>
\* 'a\tb\tc\td': a row with four fields
WideRow == <<"a", "\t", "b", "\t", "c", "\t", "d">>
\* the tags '<img src="/x/p">', '<img src="p">' and '<img src="../images/p">'
ImgAbsolute == ImgOpen \o <<" ">> \o SrcOpen \o <<"/", "x", "/", "p", "\"", ">">>
ImgBare == ImgOpen \o <<" ">> \o SrcOpen \o <<"p", "\"", ">">>
ImgCanonical == ImgOpen \o <<" ">> \o SrcOpen \o ImagesPrefix \o <<"p", "\"", ">">>
\* cards with an image in the back (absolute, canonical) and in the front
ImgBackRow == <<"a", "\t">> \o ImgAbsolute \o <<"\t", "c">>
ImgCanonicalRow == <<"a", "\t">> \o ImgCanonical \o <<"\t", "c">>
ImgFrontRow == ImgBare \o <<"\t", "b", "\t", "c">>

\* the lines below the header
RowKinds == {CardA, TaggedRow, EmptyFrontRow, WideRow, ImgBackRow,
             ImgCanonicalRow, ImgFrontRow, <<>>}

\* the unit tags: unit names are single words (Config.generate_unit_name)
UnitTags == {<<"u">>, <<"t">>}

\* a document, a unit tag, and nothing applied yet
InitFmt ==
    /\ GenIdle
    /\ NormIdle
    /\ TruncIdle
    /\ WriteIdle
    /\ PromptIdle
    /\ MetaIdle
    /\ BatchIdle
    /\ fpc = "raw"
    /\ \E header \in HeaderChoices :
       \E rows \in UNION {[1..n -> RowKinds] : n \in 0..MaxRows} :
       \E final_newline \in {<<>>, <<NL>>} :
           fdoc = JoinLines(header \o rows) \o final_newline
    /\ unit_tag \in UnitTags
    /\ vo = NoResult
    /\ tsv = [valid |-> TRUE, errors |-> <<>>]
    /\ nt1 = <<>>
    /\ nt2 = <<>>
    /\ formatted = <<>>
    /\ parsed = NoDeck

\* validation = generator.validate_output(output_path)
ValidateOutput ==
    /\ fpc = "raw"
    /\ fpc' = "validate_output"
    /\ vo' = validate_output(fdoc)
    /\ UNCHANGED <<normVars, batchVars, metaVars, promptVars, genVars, truncVars, writeVars, fdoc, unit_tag, tsv, nt1, nt2, formatted, parsed>>

\* AnkiFormatter().validate_tsv(content)
ValidateTsv ==
    /\ fpc = "raw"
    /\ fpc' = "validate_tsv"
    /\ tsv' = validate_tsv(fdoc)
    /\ UNCHANGED <<normVars, batchVars, metaVars, promptVars, genVars, truncVars, writeVars, fdoc, unit_tag, vo, nt1, nt2, formatted, parsed>>

\* AnkiFormatter().normalize_tags(cards, unit_tag)
NormalizeTags ==
    /\ fpc = "raw"
    /\ fpc' = "normalize_tags"
    /\ nt1' = normalize_tags(fdoc, unit_tag)
    /\ UNCHANGED <<normVars, batchVars, metaVars, promptVars, genVars, truncVars, writeVars, fdoc, unit_tag, vo, tsv, nt2, formatted, parsed>>

\* normalize_tags applied to its own result
NormalizeTagsAgain ==
    /\ fpc = "normalize_tags"
    /\ fpc' = "normalize_tags_twice"
    /\ nt2' = normalize_tags(nt1, unit_tag)
    /\ UNCHANGED <<normVars, batchVars, metaVars, promptVars, genVars, truncVars, writeVars, fdoc, unit_tag, vo, tsv, nt1, formatted, parsed>>

\* AnkiFormatter().format_cards(raw_cards, unit_name)
FormatCards ==
    /\ fpc = "raw"
    /\ fpc' = "format_cards"
    /\ formatted' = format_cards(fdoc)
    /\ UNCHANGED <<normVars, batchVars, metaVars, promptVars, genVars, truncVars, writeVars, fdoc, unit_tag, vo, tsv, nt1, nt2, parsed>>

\* the packaging step reads the file that was validated:
\* parse_anki_tsv(output_path)
ParseAnkiTsv ==
    /\ fpc = "validate_output"
    /\ fpc' = "parse_anki_tsv"
    /\ parsed' = parse_anki_tsv(fdoc)
    /\ UNCHANGED <<normVars, batchVars, metaVars, promptVars, genVars, truncVars, writeVars, fdoc, unit_tag, vo, tsv, nt1, nt2, formatted>>

NextFmt ==
    \/ ValidateOutput
    \/ ParseAnkiTsv
    \/ ValidateTsv
    \/ NormalizeTags
    \/ NormalizeTagsAgain
    \/ FormatCards

SpecFmt == InitFmt /\ [][NextFmt]_vars

\* ------------------------------------------------------------------------
\* Properties of the validators and the formatter (checked under SpecFmt)
\* ------------------------------------------------------------------------
\* the texts of the errors about the header
HeaderErrorTexts ==
    {"File too short - missing headers", "Missing #separator:tab header",
     "Missing #html:true header", "Missing #tags column:3 header",
     "Missing column headers"}

\* a report that says the document is invalid for a reason that is not its
\* header
InvalidNotForHeader(report) ==
    /\ ~report.valid
    /\ report.errors # <<>>
    /\ \A k \in 1..Len(report.errors) : report.errors[k][2] \notin HeaderErrorTexts

\* the document is the four canonical header lines and nothing else
HeaderOnly == fdoc \in {JoinLines(CanonicalHeader), HeaderBlock}

\* C14: validate on a document made of exactly the 4 canonical header lines
\* and 0 card rows reports valid = false with the zero-cards error and no
\* header error.
C14_HeaderOnlyIsInvalid ==
    HeaderOnly =>
        /\ (fpc = "validate_output") => InvalidNotForHeader(vo)
        /\ (fpc = "validate_tsv") => InvalidNotForHeader(tsv)

\* the messages of a report that are about line i
ErrorsAt(report, i) == {k \in 1..Len(report.errors) : report.errors[k][1] = i}

\* the report has exactly one error for every row with four fields, and an
\* error for every later row whose front is empty
WideRowsReported(report) ==
    LET lines == SplitLines(fdoc) IN
    \A i \in 1..Len(lines) :
        (Len(SplitTabs(lines[i])) = 4) =>
            /\ ~report.valid
            /\ Cardinality(ErrorsAt(report, i)) = 1
            /\ \A j \in (i + 1)..Len(lines) :
                   (lines[j] = EmptyFrontRow) => ErrorsAt(report, j) # {}

\* C15: validate on a document containing a row with 4 tab-separated fields
\* reports exactly one column-count error for that line, making
\* valid = false, and still checks every later row, so a defect in a later
\* row is reported as well.
C15_WideRowIsOneError ==
    StartsWith(fdoc, HeaderBlock) =>
        /\ (fpc = "validate_output") => WideRowsReported(vo)
        /\ (fpc = "validate_tsv") => WideRowsReported(tsv)

FirstAt(tag_list, tag) ==
    CHOOSE i \in 1..Len(tag_list) :
        tag_list[i] = tag /\ \A j \in 1..(i - 1) : tag_list[j] # tag

\* the tags of a row after normalization: the unit tag first and once, then
\* the row's other tags, each once, in the order of their first occurrence
TagsNormalized(old_tags, new_tags) ==
    /\ new_tags # <<>>
    /\ new_tags[1] = unit_tag
    /\ \A a, b \in 1..Len(new_tags) : (a # b) => (new_tags[a] # new_tags[b])
    /\ {new_tags[k] : k \in 1..Len(new_tags)}
           = {old_tags[k] : k \in 1..Len(old_tags)} \cup {unit_tag}
    /\ \A a, b \in 2..Len(new_tags) :
           (a < b) => FirstAt(old_tags, new_tags[a]) < FirstAt(old_tags, new_tags[b])

Occurrences(lines, line) == Cardinality({i \in 1..Len(lines) : lines[i] = line})

\* C18: the output of format_cards starts with the four canonical header
\* lines in canonical order and holds each of them exactly once, whether the
\* input's headers were missing (then the block is prepended) or complete
\* (then the block is left as it was).
C18_HeaderBlockFirstAndOnce ==
    (fpc = "format_cards") =>
        LET out == SplitLines(formatted) IN
        /\ Len(out) >= 4
        /\ SubSeq(out, 1, 4) = CanonicalHeader
        /\ \A k \in 1..4 : Occurrences(out, CanonicalHeader[k]) = 1

\* every src="..." of the text names a path under ../images/
AllImagePathsCanonical(text) ==
    \A i \in 0..(Len(text) - Len(SrcOpen)) :
        (SubSeq(text, i + 1, i + Len(SrcOpen)) = SrcOpen) =>
            StartsWith(SubSeq(text, i + Len(SrcOpen) + 1, Len(text)), ImagesPrefix)

\* C19: after format_cards every image reference of every retained card
\* line, in whichever field it occurs, is prefixed with ../images/: one that
\* had the prefix is unchanged, any other is rewritten to the prefix plus its
\* basename.
C19_ImagePathsCanonical ==
    (fpc = "format_cards") =>
        /\ AllImagePathsCanonical(formatted)
        /\ Contains(fdoc, ImgBackRow) => Contains(formatted, ImgCanonicalRow)
        /\ Contains(fdoc, ImgFrontRow) =>
               Contains(formatted, ImgOpen \o <<" ">> \o SrcOpen \o ImagesPrefix
                                       \o <<"p", "\"", ">", "\t", "b", "\t", "c">>)

\* ------------------------------------------------------------------------
\* The write of the deck file (SpecWrite):
\*     with open(output_path, 'w', encoding='utf-8') as f:
\*         f.write(flashcard_content)
\* in OllamaCardGenerator.generate_flashcards, in
\* ClaudeCardGenerator.generate_flashcards and in utils.save_file.  The
\* generation run above takes it as one step; here it is taken apart into the
\* steps the operating system sees, with the process killed between them.
\* ------------------------------------------------------------------------
\* the documents a run writes: the header and up to MaxRows cards
DeckDocuments ==
    {JoinLines(CanonicalHeader \o rows) \o <<NL>> :
        rows \in UNION {[1..n -> {CardA, CardB}] : n \in 0..MaxRows}}

\* the path holds no file, or the deck of an earlier run
PreviousFiles == {NoFile, JoinLines(CanonicalHeader \o <<CardB>>) \o <<NL>>}

InitWrite ==
    /\ GenIdle
    /\ NormIdle
    /\ TruncIdle
    /\ FmtIdle
    /\ PromptIdle
    /\ MetaIdle
    /\ BatchIdle
    /\ wpc = "ready"
    /\ to_write \in DeckDocuments
    /\ previous_file \in PreviousFiles
    /\ disk_file = previous_file

\* open(output_path, 'w'): the file is created, or cut to length 0
OpenForWrite ==
    /\ wpc = "ready"
    /\ wpc' = "open"
    /\ disk_file' = <<>>
    /\ UNCHANGED <<normVars, batchVars, metaVars, promptVars, genVars, truncVars, fmtVars, to_write, previous_file>>

\* f.write(flashcard_content): the buffered writer hands the text over in
\* pieces, a full buffer at a time; whatever the buffer size, the file holds
\* a longer prefix of the text after each piece
FlushPart ==
    /\ wpc = "open"
    /\ \E k \in (Len(disk_file) + 1)..Len(to_write) :
         disk_file' = SubSeq(to_write, 1, k)
    /\ UNCHANGED <<normVars, batchVars, metaVars, promptVars, genVars, truncVars, fmtVars, wpc, to_write, previous_file>>

\* the end of the with block: the rest of the buffer is written, the file
\* is closed
CloseFile ==
    /\ wpc = "open"
    /\ wpc' = "closed"
    /\ disk_file' = to_write
    /\ UNCHANGED <<normVars, batchVars, metaVars, promptVars, genVars, truncVars, fmtVars, to_write, previous_file>>

\* the process is killed (SIGKILL, power loss): no handler runs, the file
\* stays as it is
Kill ==
    /\ wpc \in {"ready", "open"}
    /\ wpc' = "killed"
    /\ UNCHANGED <<normVars, batchVars, metaVars, promptVars, genVars, truncVars, fmtVars, to_write, previous_file, disk_file>>

NextWrite == OpenForWrite \/ FlushPart \/ CloseFile \/ Kill

SpecWrite == InitWrite /\ [][NextWrite]_vars

\* C20: the deck document is written atomically: if the process is killed
\* at any point, the deck file path holds either its complete previous
\* content (or no file) or the complete new document, never a half-written
\* or empty truncated file.
C20_KilledLeavesOldOrNew ==
    (wpc = "killed") => (disk_file \in {previous_file, to_write})

\* ------------------------------------------------------------------------
\* The truncator followed by _create_generation_prompt (SpecPrompt).  The
\* prompt embeds markdown_content[:15000]; texts of that size are told by
\* their lengths: the unit's length, the place of its last section marker
\* inside the cut, the length the truncator keeps.
\* ------------------------------------------------------------------------
\* {markdown_content[:15000]}
prompt_content_cap == 15000

Min(a, b) == IF a <= b THEN a ELSE b
Max(a, b) == IF a >= b THEN a ELSE b

\* available_for_content of a unit without images
AvailableIn(ctx) == ctx - prompt_overhead - effective_target * tokens_per_card

\* target_chars = int(len(markdown_content) * keep_ratio), by the length
TargetCharsOfLen(len, available) ==
    LET r == keep_ratio(available, len \div 4)
    IN  (len * r[1]) \div r[2]

\* lines 303-309 by the lengths: the cut, or the marker's index when that is
\* more than 70% of the cut
KeptOfCut(n_chars, last_section) ==
    IF 10 * last_section > 7 * n_chars THEN last_section ELSE n_chars

\* the context lengths of the models: a small one, the default 8192 and a
\* large one
ContextLengths == {2048, 8192, 32768}

\* the lengths of the units
ContentLens == {k * LenStep : k \in 0..MaxLenSteps} \cup {3}

\* where the last '\n## ' inside the first n_chars characters can be: nowhere,
\* at the start, just below and just above 70%, at the very end
MarkerChoices(n_chars) ==
    {-1} \cup
    {m \in {0, (7 * n_chars) \div 10, (7 * n_chars) \div 10 + 1,
            n_chars - Len(SectionMarker)} :
        m >= 0 /\ m + Len(SectionMarker) <= n_chars}

InitPrompt ==
    /\ GenIdle
    /\ NormIdle
    /\ TruncIdle
    /\ FmtIdle
    /\ WriteIdle
    /\ MetaIdle
    /\ BatchIdle
    /\ ppc = "call"
    /\ content_len \in ContentLens
    /\ model_context \in ContextLengths
    /\ marker_at \in
         IF content_len \div 4 <= AvailableIn(model_context) \/ content_len < 4
         THEN {-1}
         ELSE MarkerChoices(TargetCharsOfLen(content_len, AvailableIn(model_context)))
    /\ kept_len = 0
    /\ notice_added = FALSE
    /\ embedded_len = 0
    /\ notice_embedded = 0

\* markdown_content = self._check_and_truncate_for_context(...)
TruncateForPrompt ==
    /\ ppc = "call"
    /\ LET available == AvailableIn(model_context)
           tokens == content_len \div 4
       IN  IF FitsBudget(tokens, available)
           THEN /\ kept_len' = content_len
                /\ notice_added' = FALSE
                /\ ppc' = "truncated"
           ELSE IF tokens = 0
           THEN /\ ppc' = "raised"
                /\ UNCHANGED <<kept_len, notice_added>>
           ELSE /\ kept_len' = KeptOfCut(TargetCharsOfLen(content_len, available),
                                         marker_at)
                /\ notice_added' = TRUE
                /\ ppc' = "truncated"
    /\ UNCHANGED <<normVars, batchVars, metaVars, genVars, truncVars, fmtVars, writeVars,
                   content_len, model_context, marker_at, embedded_len,
                   notice_embedded>>

\* prompt = self._create_generation_prompt(markdown_content, ...): the
\* content is embedded as markdown_content[:15000]
CreatePrompt ==
    /\ ppc = "truncated"
    /\ ppc' = "prompted"
    /\ LET returned_len ==
               kept_len + (IF notice_added THEN Len(TruncationNotice) ELSE 0)
       IN  /\ embedded_len' = Min(returned_len, prompt_content_cap)
           /\ notice_embedded' =
                  IF notice_added THEN Max(0, embedded_len' - kept_len) ELSE 0
    /\ UNCHANGED <<normVars, batchVars, metaVars, genVars, truncVars, fmtVars, writeVars,
                   content_len, model_context, marker_at, kept_len, notice_added>>

NextPrompt == TruncateForPrompt \/ CreatePrompt

SpecPrompt == InitPrompt /\ [][NextPrompt]_vars

\* C29: whenever the truncator cut the content, the prompt handed to the
\* provider contains the whole truncation notice: the cap on the embedded
\* content never removes it.
C29_PromptKeepsNotice ==
    (ppc = "prompted" /\ notice_added) =>
        notice_embedded = Len(TruncationNotice)

\* ------------------------------------------------------------------------
\* The card count of validate_output and the parser (checked under SpecFmt)
\* ------------------------------------------------------------------------
\* C30: the card_count validate_output reports for a file equals the number
\* of cards parse_anki_tsv extracts from the same file.
C30_CardCountIsParsedCount ==
    (fpc = "parse_anki_tsv") => vo.card_count = Len(parsed.cards)


\* ------------------------------------------------------------------------
\* The image metadata store: MetadataStorage (src/metadata/storage.py) used
\* by extraction runs, and the readers of its file
\* ------------------------------------------------------------------------
\* the other parts' variables
NotMeta ==
    <<normVars, genVars, truncVars, fmtVars, writeVars, promptVars, batchVars>>

\* the store left by earlier runs: none, or a complete document
InitMeta ==
    /\ GenIdle
    /\ NormIdle
    /\ TruncIdle
    /\ FmtIdle
    /\ WriteIdle
    /\ PromptIdle
    /\ BatchIdle
    /\ \E images \in Collections :
         \/ /\ meta_file = NoMetaFile
            /\ images = EmptyCollection
            /\ had_store = FALSE
            /\ persisted = {}
            /\ described_once = {}
         \/ /\ meta_file = StoreFile(images)
            /\ had_store = TRUE
            /\ persisted = {f \in Filenames : images[f] # NotIn}
            /\ described_once = {f \in Filenames : images[f] = Described}
    /\ bak_file = NoMetaFile
    /\ mpc = [w \in Workers |-> "off"]
    /\ collection = [w \in Workers |-> EmptyCollection]
    /\ fd = [w \in Workers |-> "closed"]
    /\ observed = NotRead

\* metadata_store = MetadataStorage(): __init__ calls load()
Construct(w) ==
    /\ mpc[w] = "off"
    /\ mpc' = [mpc EXCEPT ![w] = "loaded"]
    /\ collection' = [collection EXCEPT ![w] = LoadedCollection(meta_file)]
    /\ UNCHANGED <<NotMeta, meta_file, bak_file, fd, observed, had_store,
                   persisted, described_once>>

\* metadata_store.add_images(images, unit_name) with the images extracted
\* from one PDF: ImageMetadata(description=img_data.get('description'), ...)
\* and self.images[filename] = image_meta for each; the extractor's
\* dictionaries carry no description
AddImages(w) ==
    /\ mpc[w] \in {"loaded", "added"}
    /\ mpc' = [mpc EXCEPT ![w] = "added"]
    /\ \E images \in (SUBSET Filenames) \ {{}} :
         collection' = [collection EXCEPT ![w] =
             [f \in Filenames |->
                 IF f \in images THEN Undescribed
                 ELSE collection[w][f]]]
    /\ UNCHANGED <<NotMeta, meta_file, bak_file, fd, observed, had_store,
                   persisted, described_once>>

\* metadata_store.update_description(filename, description, ...): the
\* enrichment pass, run when images were extracted (total_images > 0),
\* describes one image; a filename without record is left out
UpdateDescription(w) ==
    /\ mpc[w] = "added"
    /\ \E f \in Filenames :
         collection' = [collection EXCEPT ![w] =
             IF collection[w][f] = NotIn THEN collection[w]
             ELSE [collection[w] EXCEPT ![f] = Described]]
    /\ UNCHANGED <<NotMeta, meta_file, bak_file, mpc, fd, observed, had_store,
                   persisted, described_once>>

\* metadata_store.save() at the end of a command that extracted images
\* (total_images > 0): "if backup and self.metadata_file.exists()"
SaveCheckExists(w) ==
    /\ mpc[w] = "added"
    /\ mpc' = [mpc EXCEPT ![w] =
                  IF meta_file.kind # "absent" THEN "exists" ELSE "ready"]
    /\ UNCHANGED <<NotMeta, meta_file, bak_file, collection, fd, observed,
                   had_store, persisted, described_once>>

\* save: self.metadata_file.rename(backup_path). The file moves to the
\* backup's path, open file objects stay with the file they opened, and the
\* backup that was there is unlinked. With the file gone in the meantime
\* rename raises, "except Exception" makes save return False, and the
\* command ends.
SaveRename(w) ==
    /\ mpc[w] = "exists"
    /\ IF meta_file.kind = "absent"
       THEN /\ mpc' = [mpc EXCEPT ![w] = "exited"]
            /\ UNCHANGED <<meta_file, bak_file, fd>>
       ELSE /\ mpc' = [mpc EXCEPT ![w] = "ready"]
            /\ bak_file' = meta_file
            /\ meta_file' = NoMetaFile
            /\ fd' = [u \in Workers |->
                         IF fd[u] = "main" THEN "bak"
                         ELSE IF fd[u] = "bak" THEN "unlinked"
                         ELSE fd[u]]
    /\ UNCHANGED <<NotMeta, collection, observed, had_store, persisted,
                   described_once>>

\* save: open(self.metadata_file, 'w') creates the file or empties it
SaveOpen(w) ==
    /\ mpc[w] = "ready"
    /\ mpc' = [mpc EXCEPT ![w] = "opened"]
    /\ meta_file' = TornFile(0)
    /\ fd' = [fd EXCEPT ![w] = "main"]
    /\ UNCHANGED <<NotMeta, bak_file, collection, observed, had_store,
                   persisted, described_once>>

\* save: json.dump(...) and the end of the with block; save returns True
\* and the command ends
SaveWrite(w) ==
    /\ mpc[w] = "opened"
    /\ mpc' = [mpc EXCEPT ![w] = "exited"]
    /\ fd' = [fd EXCEPT ![w] = "closed"]
    /\ meta_file' = IF fd[w] = "main"
                    THEN Overwrite(meta_file, collection[w]) ELSE meta_file
    /\ bak_file' = IF fd[w] = "bak"
                   THEN Overwrite(bak_file, collection[w]) ELSE bak_file
    /\ had_store' = (had_store \/ meta_file'.kind = "store")
    /\ persisted' = persisted \cup
           {f \in Filenames : meta_file'.images[f] # NotIn}
    /\ described_once' = described_once \cup
           {f \in Filenames : meta_file'.images[f] = Described}
    /\ UNCHANGED <<NotMeta, collection, observed>>

\* the run is killed during save
KillSaving(w) ==
    /\ mpc[w] \in {"exists", "ready", "opened"}
    /\ mpc' = [mpc EXCEPT ![w] = "killed"]
    /\ fd' = [fd EXCEPT ![w] = "closed"]
    /\ UNCHANGED <<NotMeta, meta_file, bak_file, collection, observed,
                   had_store, persisted, described_once>>

\* no image was extracted (total_images = 0): the command ends without save
Exit(w) ==
    /\ mpc[w] = "loaded"
    /\ mpc' = [mpc EXCEPT ![w] = "exited"]
    /\ UNCHANGED <<NotMeta, meta_file, bak_file, collection, fd, observed,
                   had_store, persisted, described_once>>

\* a reader opens the store's path: load_image_metadata of a generator, or
\* MetadataStorage.load of another command
ReadStore ==
    /\ observed = NotRead
    /\ \E w \in Workers : mpc[w] # "off"
    /\ observed' = [had |-> had_store, file |-> meta_file]
    /\ UNCHANGED <<NotMeta, meta_file, bak_file, mpc, collection, fd,
                   had_store, persisted, described_once>>

NextMeta ==
    \/ \E w \in Workers : Construct(w)
    \/ \E w \in Workers : AddImages(w)
    \/ \E w \in Workers : UpdateDescription(w)
    \/ \E w \in Workers : SaveCheckExists(w)
    \/ \E w \in Workers : SaveRename(w)
    \/ \E w \in Workers : SaveOpen(w)
    \/ \E w \in Workers : SaveWrite(w)
    \/ \E w \in Workers : KillSaving(w)
    \/ \E w \in Workers : Exit(w)
    \/ ReadStore

SpecMeta == InitMeta /\ [][NextMeta]_vars

\* ------------------------------------------------------------------------
\* Properties of the metadata store (checked under SpecMeta)
\* ------------------------------------------------------------------------
\* no save is under way
NoSaveUnderWay ==
    \A w \in Workers : mpc[w] \in {"off", "loaded", "added", "exited"}

\* C21: a reader of the store's path finds a complete store once there has
\* been one, whatever a concurrent save is doing; and when the concurrent
\* saves are over the file is a complete store.
C21_ReadersSeeCompleteStore ==
    /\ observed.had => observed.file.kind = "store"
    /\ (had_store /\ NoSaveUnderWay) => meta_file.kind = "store"

\* C22: records are never deleted: a complete store at the path holds every
\* filename the complete stores before it held.
C22_RecordsNeverDeleted ==
    (meta_file.kind = "store") =>
        \A f \in persisted : meta_file.images[f] # NotIn

\* C28: a description that was in the store is not reset: a complete store
\* at the path holds no empty record for an image that was described.
C28_DescriptionsNotReset ==
    (meta_file.kind = "store") =>
        \A f \in described_once : meta_file.images[f] # Undescribed


\* ------------------------------------------------------------------------
\* The batch commands: "generate" without --unit (cli/generate.py) and
\* "package --all" (cli/package.py), run through the click group (cli/main.py)
\* ------------------------------------------------------------------------
\* the largest number of units in config.yaml
MaxUnits == 3

\* what happens to a unit: it succeeds, its input file is missing, or the
\* work on it raises an Exception
UnitOutcomes == {"ok", "missing_input", "exception"}

\* the other parts' variables
NotBatch ==
    <<normVars, genVars, truncVars, fmtVars, writeVars, promptVars, metaVars>>

InitBatch ==
    /\ GenIdle
    /\ NormIdle
    /\ TruncIdle
    /\ FmtIdle
    /\ WriteIdle
    /\ PromptIdle
    /\ MetaIdle
    /\ bpc = "running"
    /\ command \in {"generate", "package"}
    /\ unit_outcomes \in UNION {[1..n -> UnitOutcomes] : n \in 0..MaxUnits}
    /\ results = <<>>
    /\ reported = {}
    /\ command_result = "none"
    /\ exit_status = -1

\* generate_command: "if not all_units: ... return False"
GenerateNoUnits ==
    /\ bpc = "running"
    /\ command = "generate"
    /\ unit_outcomes = <<>>
    /\ command_result' = "False"
    /\ bpc' = "returned"
    /\ UNCHANGED <<NotBatch, command, unit_outcomes, results, reported,
                   exit_status>>

\* one iteration of generate_command's loop: _generate_single_unit prints
\* the failure and returns False, results.append((unit_name, success))
GenerateUnit ==
    /\ bpc = "running"
    /\ command = "generate"
    /\ Len(results) < Len(unit_outcomes)
    /\ LET i == Len(results) + 1 IN
         /\ results' = Append(results, unit_outcomes[i])
         /\ reported' = IF unit_outcomes[i] = "ok" THEN reported
                        ELSE reported \cup {<<i, unit_outcomes[i]>>}
    /\ UNCHANGED <<NotBatch, bpc, command, unit_outcomes, command_result,
                   exit_status>>

\* after the loop: the summary, and return success_count == total_count
GenerateSummary ==
    /\ bpc = "running"
    /\ command = "generate"
    /\ unit_outcomes # <<>>
    /\ Len(results) = Len(unit_outcomes)
    /\ command_result' =
           IF \A i \in 1..Len(results) : results[i] = "ok"
           THEN "True" ELSE "False"
    /\ bpc' = "returned"
    /\ UNCHANGED <<NotBatch, command, unit_outcomes, results, reported,
                   exit_status>>

\* one iteration of package_command's loop: generate_apkg_for_unit inside
\* try, "except Exception as e" prints the unit and the cause
PackageUnit ==
    /\ bpc = "running"
    /\ command = "package"
    /\ Len(results) < Len(unit_outcomes)
    /\ LET i == Len(results) + 1 IN
         /\ results' = Append(results, unit_outcomes[i])
         /\ reported' = IF unit_outcomes[i] = "ok" THEN reported
                        ELSE reported \cup {<<i, unit_outcomes[i]>>}
    /\ UNCHANGED <<NotBatch, bpc, command, unit_outcomes, command_result,
                   exit_status>>

\* after the loop: the summary table, the next step, and return True
PackageSummary ==
    /\ bpc = "running"
    /\ command = "package"
    /\ Len(results) = Len(unit_outcomes)
    /\ command_result' = "True"
    /\ bpc' = "returned"
    /\ UNCHANGED <<NotBatch, command, unit_outcomes, results, reported,
                   exit_status>>

\* cli/main.py: generate(...) and package(...) call the command and drop what
\* it returns; click ends the process with status 0
CliExit ==
    /\ bpc = "returned"
    /\ exit_status' = 0
    /\ bpc' = "exited"
    /\ UNCHANGED <<NotBatch, command, unit_outcomes, results, reported,
                   command_result>>

NextBatch ==
    \/ GenerateNoUnits
    \/ GenerateUnit
    \/ GenerateSummary
    \/ PackageUnit
    \/ PackageSummary
    \/ CliExit

SpecBatch == InitBatch /\ [][NextBatch]_vars

\* the units that failed
FailedUnits == {i \in 1..Len(results) : results[i] # "ok"}

\* C23: at the end of a batch every unit was attempted, every failed unit
\* was reported with its cause, and the exit status is success only if no
\* unit failed.
C23_BatchStatusReflectsFailures ==
    (bpc = "exited" /\ Len(unit_outcomes) > 0) =>
        /\ Len(results) = Len(unit_outcomes)
        /\ reported = {<<i, results[i]>> : i \in FailedUnits}
        /\ (exit_status = 0) => (FailedUnits = {})

====
